---- MODULE Spec2Model ----
(***************************************************************************)
(* Model of src/Triangle_generator.py: triMeshgen (the assembly of the    *)
(* planar straight-line graph handed to the triangulator) and grader (the *)
(* resampling of a line to the target node spacing).                      *)
(*                                                                         *)
(* Geometry is abstracted as follows.  A point is a record                *)
(* [src, arc]: the geometry it lies on and its arc-length position on it. *)
(* A LineString is a record [src, coords] whose coords are the arc-length *)
(* positions of its points; its length is the distance between the first  *)
(* and the last position.  Lengths, spacings and distances are integers;  *)
(* 1.5 * target_length is compared without division (2*L > 3*s).          *)
(* Vertex indices held in segments are 0-based, as in the numpy arrays.   *)
(***************************************************************************)
EXTENDS Integers, Sequences, FiniteSets

VARIABLES
    bounding_poly,   \* argument: [exterior |-> ring size, interiors |-> holes]
    lines_in,        \* argument `lines` as passed by the caller
    polygons_in,     \* argument `polygons` as passed by the caller
    target_length,   \* argument
    buffer_dist,     \* argument
    pc,              \* position in triMeshgen
    diag,            \* the not-implemented note has been printed
    lines,           \* local `lines` (rebound at line 59)
    polygons,        \* local `polygons` (rebound at line 70)
    rep_points,      \* local list of refinement regions
    buf_union,       \* simplified union of the buffers
    buf_lines,       \* boundary rings of buf_union
    tri_data,        \* dictionary handed to the triangulator
    i,               \* loop index of the assembly loops
    exc              \* exception that ended the call, or "none"

vars == <<bounding_poly, lines_in, polygons_in, target_length, buffer_dist,
          pc, diag, lines, polygons, rep_points, buf_union, buf_lines,
          tri_data, i, exc>>

(***************************************************************************)
(* Bounds of the model.                                                    *)
(***************************************************************************)
\* largest number of vertices of the boundary ring (closing point excluded)
MaxRing == 4
\* largest number of simple geometries (line parts plus polygon parts) passed
MaxGeoms == 2

Lengths == {1, 3, 5}
TargetLengths == {1, 2}
BufferDists == {0, 1}
\* shapes of a component of the buffer union: coordinate counts of its
\* rings (exterior first, closing coordinate included)
BufComponents == {<<4>>, <<5, 4>>}

Min(a, b) == IF a < b THEN a ELSE b

(***************************************************************************)
(* Input geometry.                                                         *)
(***************************************************************************)
\* an item of `lines` or `polygons`: a simple geometry (multi = FALSE, one
\* part) or a multi-part collection; a part is given by its length
ItemsUpTo(m) ==
    { it \in [multi : BOOLEAN, parts : UNION {[1..k -> Lengths] : k \in 1..m}] :
        ~it.multi => Len(it.parts) = 1 }

RECURSIVE GeomSeqs(_)
\* the lists of items with at most m parts in total
GeomSeqs(m) ==
    IF m = 0 THEN {<< >>}
    ELSE {<< >>} \cup
         UNION { { <<it>> \o rest : rest \in GeomSeqs(m - Len(it.parts)) } :
                 it \in ItemsUpTo(m) }

RECURSIVE TotalParts(_)
TotalParts(items) ==
    IF items = << >> THEN 0
    ELSE Len(Head(items).parts) + TotalParts(Tail(items))

\* an exception in place of a value
Raise(e) == [raise |-> e]
Raised(x) == "raise" \in DOMAIN x

\* shapely LineString(coords): at least two coordinate tuples are required
LineString(src, coords) ==
    IF Len(coords) < 2 THEN Raise("ValueError")
    ELSE [src |-> src, coords |-> coords]

\* LineString.length
Length(line) == line.coords[Len(line.coords)] - line.coords[1]

\* the j-th part of the k-th item of `lines`
LinePart(k, j) == LineString(<<"line", k, j>>, <<0, lines_in[k].parts[j]>>)

\* the boundary of the j-th part of the k-th item of `polygons`: a closed
\* ring without holes of the given length
PolygonPart(k, j) ==
    [boundary |-> LineString(<<"polygon", k, j>>, <<0, polygons_in[k].parts[j]>>)]

(***************************************************************************)
(* grader                                                                  *)
(***************************************************************************)
\* line.interpolate(d): the point at arc-length d, clamped to the line
Interpolate(line, d) == line.coords[1] + Min(d, Length(line))

grader(shapein, type, tl) ==
    IF type = "line"
    THEN LET n == Length(shapein) \div tl
             coords == [k \in 1..n |-> Interpolate(shapein, (k - 1) * tl)]
         IN  LineString(shapein.src,
                        Append(coords, shapein.coords[Len(shapein.coords)]))
    ELSE "None"

(***************************************************************************)
(* triMeshgen: normalisation and grading (lines 42-79)                     *)
(***************************************************************************)
\* a filter that also keeps a line of length exactly 1.5 * target_length
KeepLineInclusive(line, tl) == 2 * Length(line) >= 3 * tl

\* the length filter of lines 53 and 57
KeepLine(line, tl) == 2 * Length(line) > 3 * tl

RECURSIVE InnerLines(_, _, _)
\* lines 56-58 from part j of the multi-part item k
InnerLines(k, j, tl) ==
    IF j > Len(lines_in[k].parts) THEN << >>
    ELSE (IF KeepLine(LinePart(k, j), tl) THEN <<LinePart(k, j)>> ELSE << >>)
         \o InnerLines(k, j + 1, tl)

RECURSIVE NormaliseLines(_, _)
\* lines 50-58 from item k: the value of lines_new
NormaliseLines(k, tl) ==
    IF k > Len(lines_in) THEN << >>
    ELSE (IF ~lines_in[k].multi
          THEN (IF KeepLine(LinePart(k, 1), tl) THEN <<LinePart(k, 1)>> ELSE << >>)
          ELSE InnerLines(k, 1, tl))
         \o NormaliseLines(k + 1, tl)

RECURSIVE InnerPolygons(_, _)
\* lines 68-69 from part j of the multi-part item k
InnerPolygons(k, j) ==
    IF j > Len(polygons_in[k].parts) THEN << >>
    ELSE <<PolygonPart(k, j)>> \o InnerPolygons(k, j + 1)

RECURSIVE NormalisePolygons(_)
\* lines 63-69 from item k: the value of polygons_new
NormalisePolygons(k) ==
    IF k > Len(polygons_in) THEN << >>
    ELSE (IF ~polygons_in[k].multi THEN <<PolygonPart(k, 1)>>
          ELSE InnerPolygons(k, 1))
         \o NormalisePolygons(k + 1)

Raises(seq) == \E k \in DOMAIN seq : Raised(seq[k])

RECURSIVE AppendPolygons(_, _, _)
\* lines 77-79 from polygon k: the list `lines` after the loop, and the
\* exception that ended it
AppendPolygons(k, ls, tl) ==
    IF k > Len(polygons) THEN [lines |-> ls, exc |-> "none"]
    ELSE LET poly1 == grader(polygons[k].boundary, "line", tl)
         IN  IF Raised(poly1) THEN [lines |-> ls, exc |-> "ValueError"]
             ELSE AppendPolygons(k + 1, Append(ls, poly1), tl)

\* lines 42-59
Normalise ==
    /\ pc = "start"
    /\ diag' = (Len(polygons_in) > 0)
    /\ lines' = NormaliseLines(1, target_length)
    /\ pc' = "flatten_polygons"
    /\ UNCHANGED <<bounding_poly, lines_in, polygons_in, target_length,
                   buffer_dist, polygons, rep_points, buf_union, buf_lines,
                   tri_data, i, exc>>

\* lines 62-70
FlattenPolygons ==
    /\ pc = "flatten_polygons"
    /\ polygons' = NormalisePolygons(1)
    /\ pc' = "grade_lines"
    /\ UNCHANGED <<bounding_poly, lines_in, polygons_in, target_length,
                   buffer_dist, diag, lines, rep_points, buf_union, buf_lines,
                   tri_data, i, exc>>

\* lines 75-76
GradeLines ==
    /\ pc = "grade_lines"
    /\ LET graded == [k \in DOMAIN lines |-> grader(lines[k], "line", target_length)]
       IN  IF Raises(graded)
           THEN /\ exc' = "ValueError"
                /\ pc' = "raised"
                /\ UNCHANGED lines
           ELSE /\ lines' = graded
                /\ pc' = "grade_polygons"
                /\ UNCHANGED exc
    /\ UNCHANGED <<bounding_poly, lines_in, polygons_in, target_length,
                   buffer_dist, diag, polygons, rep_points, buf_union,
                   buf_lines, tri_data, i>>

\* lines 77-79
GradePolygons ==
    /\ pc = "grade_polygons"
    /\ LET r == AppendPolygons(1, lines, target_length)
       IN  /\ lines' = r.lines
           /\ exc' = r.exc
           /\ pc' = IF r.exc = "none" THEN "buffer" ELSE "raised"
    /\ UNCHANGED <<bounding_poly, lines_in, polygons_in, target_length,
                   buffer_dist, diag, polygons, rep_points, buf_union,
                   buf_lines, tri_data, i>>

(***************************************************************************)
(* triMeshgen: buffers and refinement regions (lines 82-116)               *)
(***************************************************************************)
\* the results cascaded_union(...).simplify(...) can have for n buffered
\* lines: nothing, one polygon, or a multi-polygon of at most n components
Unions(n) ==
    IF n = 0 THEN {[type |-> "GeometryCollection", geoms |-> << >>]}
    ELSE { [type |-> IF Len(g) = 1 THEN "Polygon" ELSE "MultiPolygon", geoms |-> g] :
           g \in UNION {[1..c -> BufComponents] : c \in 1..n} }

\* np.hstack((representative_point of component `comp`, [0, area])); the
\* seed is named by the 0-based index of the component it is taken from
Region(comp, area) == [seed |-> comp, attr |-> 0, area |-> area]

\* lines 84-97 for the union u
RepPoints(u, tl) ==
    LET a_inner == tl * tl
        area_in_buffer == 5 * a_inner
    IN  IF u.type = "Polygon" THEN <<Region(0, area_in_buffer)>>
        ELSE [k \in 1..Len(u.geoms) |-> Region(1, area_in_buffer)]

\* the boundary rings of component comp (0-based) of the union, as lines;
\* a ring of k coordinates ends on its first point
Rings(u, comp) ==
    [r \in 1..Len(u.geoms[comp + 1]) |->
        LineString(<<"buffer", comp, r - 1>>,
                   [p \in 1..u.geoms[comp + 1][r] |-> p - 1])]

RECURSIVE BufLinesFrom(_, _)
\* lines 111-116 from component comp (0-based)
BufLinesFrom(u, comp) ==
    IF comp >= Len(u.geoms) THEN << >>
    ELSE Rings(u, comp) \o BufLinesFrom(u, comp + 1)

\* lines 103-116
BufLines(u) ==
    IF u.type = "Polygon" THEN Rings(u, 0) ELSE BufLinesFrom(u, 0)

\* lines 82-97
BufferRegions ==
    /\ pc = "buffer"
    /\ IF buffer_dist > 0
       THEN \E u \in Unions(Len(lines)) :
               /\ buf_union' = u
               /\ rep_points' = RepPoints(u, target_length)
               /\ pc' = "buffer_boundaries"
       ELSE /\ rep_points' = << >>
            /\ pc' = "boundary"
            /\ UNCHANGED buf_union
    /\ UNCHANGED <<bounding_poly, lines_in, polygons_in, target_length,
                   buffer_dist, diag, lines, polygons, buf_lines, tri_data,
                   i, exc>>

\* lines 101-116
BufferBoundaries ==
    /\ pc = "buffer_boundaries"
    /\ buf_lines' = BufLines(buf_union)
    /\ pc' = "boundary"
    /\ UNCHANGED <<bounding_poly, lines_in, polygons_in, target_length,
                   buffer_dist, diag, lines, polygons, rep_points, buf_union,
                   tri_data, i, exc>>

(***************************************************************************)
(* triMeshgen: assembly of tri_data (lines 119-176)                        *)
(***************************************************************************)
\* np.array(line.coords)[:, 0:2]: the points of a line
Points(line) ==
    [p \in 1..Len(line.coords) |-> [src |-> line.src, arc |-> line.coords[p]]]

\* bounding_poly.boundary: the exterior ring, followed by the rings of the
\* holes; a ring of n vertices has n + 1 coordinates, the last on the first
BoundaryRings(poly) ==
    [r \in 1..(1 + poly.interiors) |->
        LineString(<<"boundary", r - 1, 0>>,
                   [p \in 1..((IF r = 1 THEN poly.exterior ELSE 3) + 1) |-> p - 1])]

\* lines 123-126: coords[0:-1] of the boundary, or of its first ring when
\* the boundary has several
BoundaryVertices(poly) ==
    LET rings == BoundaryRings(poly)
        co == IF Len(rings) = 1 THEN Points(rings[1]) ELSE Points(rings[1])
    IN  SubSeq(co, 1, Len(co) - 1)

\* np.vstack((np.arange(0, n), np.arange(1, n + 1))).T
Chain(n) == [k \in 1..n |-> <<k - 1, k>>]

\* a ring whose last connection is left pointing past the ring
NoCloseLoop(b) == b

\* b[-1][1] = 0
CloseLoop(b) == [k \in 1..Len(b) |-> IF k = Len(b) THEN <<b[k][1], 0>> ELSE b[k]]

\* a chain that keeps the connection past its last point
KeepLast(b) == b

\* b[0:-1]
DropLast(b) == SubSeq(b, 1, Len(b) - 1)

\* b += o
Shift(b, o) == [k \in 1..Len(b) |-> <<b[k][1] + o, b[k][2] + o>>]

\* an offset that starts on the last vertex already present
OffsetOffByOne(vertices) == Len(vertices) - 1

\* len(tri_data['vertices']), the offset of lines 140 and 151
RunningOffset(vertices) == Len(vertices)

\* graded lines added as segments whatever the buffer distance
AlwaysSegments(bd) == TRUE

\* the test of line 137
LinesAreSegments(bd) == bd = 0

\* lines 135-142 and 147-153: tri_data after one line is added
AddedLine(td, line, withSegments) ==
    LET a == Points(line)
        b == Shift(DropLast(Chain(Len(a))), RunningOffset(td.vertices))
    IN  [td EXCEPT !.segments = IF withSegments THEN td.segments \o b ELSE @,
                   !.vertices = td.vertices \o a]

\* np.array(rep_points)[0]
FirstRow(arr) == IF Len(arr) = 0 THEN Raise("IndexError") ELSE arr[1]

\* where the call continues after the loop of lines 134-142
AfterLines ==
    IF buffer_dist > 0
    THEN (IF Len(buf_lines) > 0 THEN "add_buf_lines" ELSE "regions")
    ELSE "triangulate"

\* lines 119-130
Boundary ==
    /\ pc = "boundary"
    /\ LET a == BoundaryVertices(bounding_poly)
           b == CloseLoop(Chain(Len(a)))
       IN  tri_data' = [vertices |-> a, segments |-> b]
    /\ i' = 0
    /\ pc' = IF Len(lines) > 0 THEN "add_lines" ELSE AfterLines
    /\ UNCHANGED <<bounding_poly, lines_in, polygons_in, target_length,
                   buffer_dist, diag, lines, polygons, rep_points, buf_union,
                   buf_lines, exc>>

\* lines 134-142, one iteration
AddLine ==
    /\ pc = "add_lines"
    /\ i < Len(lines)
    /\ tri_data' = AddedLine(tri_data, lines[i + 1], LinesAreSegments(buffer_dist))
    /\ i' = IF i + 1 < Len(lines) THEN i + 1 ELSE 0
    /\ pc' = IF i + 1 < Len(lines) THEN "add_lines" ELSE AfterLines
    /\ UNCHANGED <<bounding_poly, lines_in, polygons_in, target_length,
                   buffer_dist, diag, lines, polygons, rep_points, buf_union,
                   buf_lines, exc>>

\* lines 145-153, one iteration
AddBufLine ==
    /\ pc = "add_buf_lines"
    /\ i < Len(buf_lines)
    /\ tri_data' = AddedLine(tri_data, buf_lines[i + 1], TRUE)
    /\ i' = i + 1
    /\ pc' = IF i + 1 < Len(buf_lines) THEN "add_buf_lines" ELSE "regions"
    /\ UNCHANGED <<bounding_poly, lines_in, polygons_in, target_length,
                   buffer_dist, diag, lines, polygons, rep_points, buf_union,
                   buf_lines, exc>>

\* lines 160-162
AttachRegions ==
    /\ pc = "regions"
    /\ LET r == FirstRow(rep_points)
       IN  IF Raised(r)
           THEN /\ exc' = r.raise
                /\ pc' = "raised"
                /\ UNCHANGED tri_data
           ELSE /\ tri_data' = [vertices |-> tri_data.vertices,
                                segments |-> tri_data.segments,
                                regions |-> r]
                /\ pc' = "triangulate"
                /\ UNCHANGED exc
    /\ UNCHANGED <<bounding_poly, lines_in, polygons_in, target_length,
                   buffer_dist, diag, lines, polygons, rep_points, buf_union,
                   buf_lines, i>>

\* lines 165-176: the one call of the triangulator
Triangulate ==
    /\ pc = "triangulate"
    /\ pc' = "called"
    /\ UNCHANGED <<bounding_poly, lines_in, polygons_in, target_length,
                   buffer_dist, diag, lines, polygons, rep_points, buf_union,
                   buf_lines, tri_data, i, exc>>

(***************************************************************************)
(* The calls of triMeshgen                                                 *)
(***************************************************************************)
Init ==
    /\ bounding_poly \in [exterior : 3..MaxRing, interiors : {0, 1}]
    /\ lines_in \in GeomSeqs(MaxGeoms)
    /\ polygons_in \in GeomSeqs(MaxGeoms - TotalParts(lines_in))
    /\ target_length \in TargetLengths
    /\ buffer_dist \in BufferDists
    /\ pc = "start"
    /\ diag = FALSE
    /\ lines = lines_in
    /\ polygons = polygons_in
    /\ rep_points = << >>
    /\ buf_union = [type |-> "unbound", geoms |-> << >>]
    /\ buf_lines = << >>
    /\ tri_data = [vertices |-> << >>, segments |-> << >>]
    /\ i = 0
    /\ exc = "none"

Next ==
    \/ Normalise
    \/ FlattenPolygons
    \/ GradeLines
    \/ GradePolygons
    \/ BufferRegions
    \/ BufferBoundaries
    \/ Boundary
    \/ AddLine
    \/ AddBufLine
    \/ AttachRegions
    \/ Triangulate

Spec == Init /\ [][Next]_vars

(***************************************************************************)
(* Properties                                                              *)
(***************************************************************************)
V == tri_data.vertices
S == tri_data.segments
NV == Len(tri_data.vertices)

\* the vertex with the 0-based index k
VertexAt(k) == tri_data.vertices[k + 1]

\* tri_data is complete: the triangulator is about to be, or has been, called
Assembled == pc \in {"triangulate", "called"}

\* lines 119-130 have run
BoundaryDone == NV > 0

\* the 0-based indices of the vertices taken from the geometry src
IndicesOf(src) == {p \in 0..(NV - 1) : VertexAt(p).src = src}

\* the positions in the segment array of the segments with an end in P
Touching(P) == {k \in 1..Len(S) : S[k][1] \in P \/ S[k][2] \in P}

\* src is a line or a polygon boundary, the geometries that are graded
IsGraded(src) == src[1] \in {"line", "polygon"}

\* C1: when the triangulator is called, both indices of every segment are
\* within [0, len(vertices)) and differ.
C1_IndexValidity ==
    Assembled =>
        \A k \in 1..Len(S) :
            /\ 0 <= S[k][1] /\ S[k][1] < NV
            /\ 0 <= S[k][2] /\ S[k][2] < NV
            /\ S[k][1] # S[k][2]

\* a buffered call with graded lines and several buffer rings reaches the
\* triangulator
C1_Witness ==
    /\ pc = "called"
    /\ buffer_dist > 0
    /\ Len(lines) > 0
    /\ Len(buf_lines) > 1
    /\ Len(S) > bounding_poly.exterior

\* C2: the n boundary vertices are the vertices 0..n-1, the boundary segments
\* are exactly (k, k+1) for k < n-1 and (n-1, 0), and nothing appended later
\* adds a boundary vertex or a segment on a boundary vertex.
C2_BoundaryLoop ==
    BoundaryDone =>
        LET n == bounding_poly.exterior
        IN  /\ NV >= n /\ Len(S) >= n
            /\ \A k \in 0..(n - 1) :
                  /\ VertexAt(k) = [src |-> <<"boundary", 0, 0>>, arc |-> k]
                  /\ S[k + 1] = <<k, IF k = n - 1 THEN 0 ELSE k + 1>>
            /\ IndicesOf(<<"boundary", 0, 0>>) = 0..(n - 1)
            /\ Touching(0..(n - 1)) = 1..n

\* lines or buffer rings were appended after the boundary
C2_Witness ==
    /\ pc = "called"
    /\ NV > bounding_poly.exterior
    /\ Len(S) > bounding_poly.exterior

\* the pairs of points joined by a segment
Joined ==
    {<<VertexAt(S[k][1]), VertexAt(S[k][2])>> :
        k \in {m \in 1..Len(S) : S[m][1] \in 0..(NV - 1) /\ S[m][2] \in 0..(NV - 1)}}

\* the points p and p+1 of every line of ls are joined by a segment
ChainsPresent(ls) ==
    LET joined == Joined
    IN  \A l \in 1..Len(ls) : \A p \in 1..(Len(ls[l].coords) - 1) :
            <<[src |-> ls[l].src, arc |-> ls[l].coords[p]],
              [src |-> ls[l].src, arc |-> ls[l].coords[p + 1]]>> \in joined

\* C3: with buffer_dist > 0 no segment has an end on a graded line and the
\* open chain of every buffer ring is present; with buffer_dist = 0 the open
\* chain of every graded line is present and there is no buffer vertex, no
\* buffer segment and no region array.
C3_ExclusiveSources ==
    Assembled =>
        /\ buffer_dist > 0 =>
              /\ Touching({p \in 0..(NV - 1) : IsGraded(VertexAt(p).src)}) = {}
              /\ ChainsPresent(buf_lines)
        /\ buffer_dist = 0 =>
              /\ ChainsPresent(lines)
              /\ {p \in 0..(NV - 1) : VertexAt(p).src[1] = "buffer"} = {}
              /\ "regions" \notin DOMAIN tri_data

\* a buffered call whose graded lines are in the vertex array
C3_Witness ==
    /\ pc = "called"
    /\ buffer_dist > 0
    /\ \E p \in 0..(NV - 1) : IsGraded(VertexAt(p).src)
    /\ Len(buf_lines) > 0

\* the part j of the item k of the argument `lines` is longer than
\* 1.5 * target_length
Longer(k, j) == 2 * lines_in[k].parts[j] > 3 * target_length

\* the positions in `lines` of the lines that came from the argument `lines`
FromLines == {p \in 1..Len(lines) : lines[p].src[1] = "line"}

\* C6: after normalisation `lines` holds, in input order and once each,
\* exactly the parts of the argument longer than 1.5 * target_length; in the
\* assembled arrays a part has vertices if and only if it is longer.
C6_LengthFilter ==
    pc # "start" =>
        /\ \A p \in FromLines : Longer(lines[p].src[2], lines[p].src[3])
        /\ \A k \in 1..Len(lines_in) : \A j \in 1..Len(lines_in[k].parts) :
              Longer(k, j) =>
                  Cardinality({p \in FromLines : lines[p].src = <<"line", k, j>>}) = 1
        /\ \A p \in FromLines : \A q \in FromLines :
              p < q => \/ lines[p].src[2] < lines[q].src[2]
                       \/ /\ lines[p].src[2] = lines[q].src[2]
                          /\ lines[p].src[3] < lines[q].src[3]
        /\ Assembled =>
              \A k \in 1..Len(lines_in) : \A j \in 1..Len(lines_in[k].parts) :
                  (IndicesOf(<<"line", k, j>>) # {}) <=> Longer(k, j)

\* a call with a line of exactly 1.5 * target_length and a longer line after
\* it reaches the triangulator
C6_Witness ==
    /\ pc = "called"
    /\ \E k \in 1..Len(lines_in) : \E j \in 1..Len(lines_in[k].parts) :
          /\ 2 * lines_in[k].parts[j] = 3 * target_length
          /\ \E k2 \in k..Len(lines_in) : \E j2 \in 1..Len(lines_in[k2].parts) :
                (k2 > k \/ j2 > j) /\ Longer(k2, j2)

\* the geometries whose points are appended as constraints
IsConstraint(src) ==
    IF buffer_dist = 0 THEN IsGraded(src) ELSE src[1] = "buffer"

\* the line of `lines` or `buf_lines` taken from the geometry src
SourceLines(src) ==
    {lines[p] : p \in {q \in 1..Len(lines) : lines[q].src = src}}
    \cup {buf_lines[p] : p \in {q \in 1..Len(buf_lines) : buf_lines[q].src = src}}

\* C10: every line appended as constraints occupies one block of vertices
\* o..o+k-1, k its number of points, and the segments on the block are
\* exactly (o+j, o+j+1) for j = 0..k-2; no segment joins two geometries.
C10_RunningOffset ==
    BoundaryDone =>
        /\ \A k \in 1..Len(S) :
              /\ S[k][1] \in 0..(NV - 1) /\ S[k][2] \in 0..(NV - 1)
              /\ VertexAt(S[k][1]).src = VertexAt(S[k][2]).src
        /\ \A src \in {V[p].src : p \in 1..NV} :
              IsConstraint(src) =>
                  LET P == IndicesOf(src)
                      o == CHOOSE m \in P : \A q \in P : m <= q
                      n == Cardinality(P)
                  IN  /\ P = o..(o + n - 1)
                      /\ \A l \in SourceLines(src) : Len(l.coords) = n
                      /\ {S[k] : k \in Touching(P)} = {<<o + j, o + j + 1>> : j \in 0..(n - 2)}
                      /\ Cardinality(Touching(P)) = n - 1

\* a buffered call: graded lines were appended without segments before
\* several buffer rings
C10_Witness ==
    /\ pc = "called"
    /\ buffer_dist > 0
    /\ Len(lines) > 1
    /\ Len(buf_lines) > 1

\* the loop of lines 75-76 has run
LinesGraded == pc \notin {"start", "flatten_polygons", "grade_lines"}

\* the loop of lines 77-79 has run or has raised
PolygonsGraded == LinesGraded /\ pc # "grade_polygons"

\* the arc-lengths 0, s, ..., m*s, with m*s the largest multiple of s
\* strictly less than L, followed by L
SamplesBelow(L, s) ==
    LET m == (L - 1) \div s
    IN  Append([k \in 1..(m + 1) |-> (k - 1) * s], L)

\* C4: a graded line of length L >= s has its points at the arc-lengths
\* 0, s, ..., m*s, the multiples of s strictly less than L, and at L.
C4_GradedSamples ==
    LinesGraded =>
        \A p \in 1..Len(lines) :
            LET L == lines[p].coords[Len(lines[p].coords)]
            IN  L >= target_length => lines[p].coords = SamplesBelow(L, target_length)

\* C5: grading a polygon boundary shorter than the spacing gives the line of
\* its two endpoints.
C5_ShortLineGraded ==
    PolygonsGraded =>
        \A k \in 1..Len(polygons_in) : \A j \in 1..Len(polygons_in[k].parts) :
            polygons_in[k].parts[j] < target_length =>
                \E p \in 1..Len(lines) :
                    /\ lines[p].src = <<"polygon", k, j>>
                    /\ lines[p].coords = <<0, polygons_in[k].parts[j]>>

\* the rows the triangulator reads from tri_data['regions']
RegionRows == <<tri_data.regions>>

\* C7: with buffer_dist > 0 and a union of c components the triangulator is
\* handed c regions, one per component, each (seed, 0, 5 * target_length^2).
C7_AllRegionsAttached ==
    (Assembled /\ buffer_dist > 0) =>
        /\ "regions" \in DOMAIN tri_data
        /\ Len(RegionRows) = Len(buf_union.geoms)
        /\ \A k \in 1..Len(RegionRows) :
              /\ RegionRows[k].attr = 0
              /\ RegionRows[k].area = 5 * target_length * target_length

\* C8: the seed of the i-th region is the representative point of the i-th
\* component of the union.
C8_SeedOfOwnComponent ==
    (buffer_dist > 0 /\ pc \notin {"start", "flatten_polygons", "grade_lines",
                                  "grade_polygons", "buffer"}) =>
        \A k \in 1..Len(rep_points) : rep_points[k].seed = k - 1

\* C9: with interior polygons passed the note is printed and the call goes
\* on to a tri_data in which no vertex, and so no segment, is taken from a
\* polygon.
C9_PolygonsNotUsed ==
    /\ (pc # "start" /\ Len(polygons_in) > 0) => diag
    /\ Assembled => \A p \in 1..NV : V[p].src[1] # "polygon"

====
